---- MODULE Spec2Model ----
(***************************************************************************)
(* Security report page: the report form (three historical variants), the  *)
(* page-level report list, the CSV uploader, the report download and the   *)
(* documents viewer, as state machines translated from the TypeScript      *)
(* sources.                                                                *)
(***************************************************************************)
EXTENDS Integers, Sequences, FiniteSets, TLC

VARIABLES
  variant,     \* which ReportForm source is mounted: "range", "single", "option"
  location,    \* useState("") of the form
  date,        \* useState of the date selection
  email,       \* useState("") of the form
  csvFile,     \* useState<File|null>(null), option variant only
  isLoading,   \* useState(false): the busy flag
  inflight,    \* suspended handleSubmit continuations, one per awaited fetch
  sent,        \* number of fetch() calls issued by the form
  accepted,    \* number of submit events that passed validation (history)
  toast,       \* description of the last toast shown by the form
  reports,     \* useState<GeneratedReport[]>([]) of the page
  history,     \* records in the order they were generated (history)
  now,         \* the client clock
  lastOp,      \* what the last form step was (history)
  lastResp,    \* the response the last completed request received (history)
  docVariant,  \* which DocumentsViewer source is mounted: "plain", "filter"
  documents,   \* useState<Document[]>([]) of the viewer
  filteredDocuments, \* useState<Document[]>([]) of the filter variant
  docLoading,  \* useState(true) of the viewer
  docError,    \* useState<string|null>(null) of the viewer
  docPc,       \* where the mount effect's fetchDocuments call stands
  filters,     \* useState of the six filter texts of the viewer
  filterPending, \* the filter effect is due: its dependencies changed
  exported,    \* text of the CSV handed to the last export's Blob
  upVariant,   \* which CsvUploader source is mounted: "url", "fixed"
  upFile,      \* useState<File|null>(null) of the uploader
  upUrl,       \* useState("") of the url variant; the constant of the other
  isUploading, \* useState(false) of the uploader
  upInflight,  \* suspended upload continuations
  upSent,      \* number of fetch() calls issued by the uploader
  upToast,     \* title of the last toast shown by the uploader
  upLastOp,    \* what the last uploader step was (history)
  upInput,     \* files[0] of the uploader's file input element
  dlPending,   \* suspended downloadFile continuations
  dlStarted,   \* number of downloadFile calls (history)
  urlsCreated, \* number of createObjectURL calls
  urlsRevoked, \* number of revokeObjectURL calls
  dlAlert,     \* text of the last alert
  dlLastOp     \* what the last download step was (history)

formVars == <<variant, location, date, email, csvFile, isLoading, inflight, sent,
              accepted, toast, reports, history, now, lastOp, lastResp>>

docVars == <<docVariant, documents, filteredDocuments, docLoading, docError, docPc,
             filters, filterPending, exported>>

upVars == <<upVariant, upFile, upUrl, isUploading, upInflight, upSent, upToast,
            upLastOp, upInput>>

dlVars == <<dlPending, dlStarted, urlsCreated, urlsRevoked, dlAlert, dlLastOp>>

vars == <<formVars, docVars, upVars, dlVars>>

-----------------------------------------------------------------------------
(* Bounds of the model *)

MaxSubmits == 2
MaxClock == 1
MaxDocs == 3
MaxUploads == 2
MaxDownloads == 2
MaxObjectUrls == 3

-----------------------------------------------------------------------------
(* Values *)

Absent == "<undefined>"
Throws == "<throws>"

FormVariants == {"range", "single", "option"}

Locations == {"London"}
Emails == {"a@b.com"}
Days == {1, 2}
DateOptions == {"Today", "Next 7 Days", "Next 14 Days", "Next 30 Days"}
Files == {"guards.csv"}
NoFile == "<null>"

NoDate == [kind |-> "none"]
InvalidDay == 0
DateOf(d) == [kind |-> "date", day |-> d]
RangeOf(f, t) == [kind |-> "range", from |-> f, to |-> t]
OptionOf(o) == [kind |-> "option", opt |-> o]

ValidationMsg == "Please fill in all fields"
SuccessMsg == "Your security report has been generated."
FailureMsg == "Failed to generate report. Please try again or contact support if the issue persists."
NoToast == "<none>"

WebhookUrl(v) ==
  IF v = "option"
  THEN "https://primary-production-b5ec.up.railway.app/webhook/64ae32ba-582c-4921-8452-5e0d81256d00"
  ELSE "https://n8ern8ern8ern8er.app.n8n.cloud/webhook/64ae32ba-582c-4921-8452-5e0d81256d00"

InitialDate(v) == IF v = "option" THEN OptionOf("Today") ELSE NoDate

-----------------------------------------------------------------------------
(* Pure helpers *)

\* JavaScript truthiness of a JSON field that is undefined or a string
Truthy(s) == s /= Absent /\ s /= ""

\* !date of the form state
DateFalsy(d) == d.kind = "none" \/ (d.kind = "option" /\ d.opt = "")

\* a formatter that writes the day first
formatDateForWebhook_DayFirst(d) ==
  CASE d.kind /= "date" -> Throws
    [] d.day = 1 -> "23-03-2025"
    [] d.day = 2 -> "24-03-2025"
    [] OTHER -> Throws

\* format(date, "yyyy-MM-dd"); date-fns throws on an invalid instant
formatDateForWebhook(d) ==
  CASE d.kind /= "date" -> Throws
    [] d.day = 1 -> "2025-03-23"
    [] d.day = 2 -> "2025-03-24"
    [] OTHER -> Throws

\* new Date(string)
NewDate(s) ==
  CASE s = "2025-03-23" -> DateOf(1)
    [] s = "2025-03-24" -> DateOf(2)
    [] s = "March 23, 2025" -> DateOf(1)
    [] OTHER -> DateOf(InvalidDay)

encodeURIComponent(s) ==
  CASE s = "a@b.com" -> "a%40b.com"
    [] s = "Next 7 Days" -> "Next%207%20Days"
    [] s = "Next 14 Days" -> "Next%2014%20Days"
    [] s = "Next 30 Days" -> "Next%2030%20Days"
    [] OTHER -> s

isDateRange(sel) ==
  /\ sel.kind = "range"
  /\ sel.from.kind = "date"
  /\ sel.to.kind = "date"

-----------------------------------------------------------------------------
(* Webhook responses.  A JSON object's fields are strings or undefined.    *)

NoResp == [kind |-> "none"]

\* the date fields a body carries: none, date alone, dateFrom alone, or the
\* pair; a date string parses or, like "soon", does not
DateFields ==
  {[date |-> Absent, dateFrom |-> Absent, dateTo |-> Absent],
   [date |-> "2025-03-23", dateFrom |-> Absent, dateTo |-> Absent],
   [date |-> "soon", dateFrom |-> Absent, dateTo |-> Absent],
   [date |-> Absent, dateFrom |-> "2025-03-23", dateTo |-> Absent],
   [date |-> Absent, dateFrom |-> "2025-03-23", dateTo |-> "2025-03-24"],
   [date |-> Absent, dateFrom |-> "2025-03-23", dateTo |-> "2025-03-23"],
   [date |-> Absent, dateFrom |-> "2025-03-23", dateTo |-> "soon"]}

JsonBodies ==
  {[kind |-> "json", location |-> l, email |-> e, urlOfSecurityReport |-> u,
    date |-> d.date, dateFrom |-> d.dateFrom, dateTo |-> d.dateTo] :
     l \in {Absent, "London"}, e \in {Absent, "a@b.com"},
     u \in {Absent, "", "https://docs.google.com/document/d/XYZ/edit"},
     d \in DateFields}

Responses ==
  {[kind |-> "neterr"],    \* fetch() rejects
   [kind |-> "status"],    \* response.ok is false
   [kind |-> "badjson"],   \* response.json() rejects
   [kind |-> "null"]}      \* the body is the JSON value null
  \cup JsonBodies

-----------------------------------------------------------------------------
(* handleSubmit of the report form *)

\* the validation guard without its email test
FormIncomplete_NoEmail(loc, d, em) == loc = "" \/ DateFalsy(d)

\* the validation guard at the top of handleSubmit
FormIncomplete(loc, d, em) == loc = "" \/ DateFalsy(d) \/ em = ""

\* a submit button that is never disabled
SubmitEnabled_Always == TRUE

\* the submit button is the form's only submit control
SubmitEnabled == ~isLoading

GetRequest(v, query) ==
  [method |-> "GET", url |-> WebhookUrl(v), query |-> query, body |-> <<>>]

PostRequest(v, body) ==
  [method |-> "POST", url |-> WebhookUrl(v), query |-> <<>>, body |-> body]

\* the date part of the query string of the range variant
DateQuery(d) ==
  IF isDateRange(d)
  THEN <<<<"dateFrom", encodeURIComponent(formatDateForWebhook(d.from))>>,
         <<"dateTo", encodeURIComponent(formatDateForWebhook(d.to))>>>>
  ELSE <<<<"date", encodeURIComponent(formatDateForWebhook(d))>>>>

QueryThrows(q) == \E i \in 1..Len(q) : q[i][2] = Throws

\* a handler that sends the query-string GET after the multipart POST
BuildRequests_Both(v, loc, d, em, file) ==
  LET get == GetRequest(v, <<<<"location", encodeURIComponent(loc)>>,
                             <<"email", encodeURIComponent(em)>>>>)
  IN IF file /= NoFile
     THEN [threw |-> FALSE, reqs |-> <<PostRequest(v, <<<<"file", file>>>>), get>>]
     ELSE [threw |-> FALSE, reqs |-> <<get>>]

\* the requests handleSubmit issues between setIsLoading(true) and its await:
\* [threw |-> an exception was raised before fetch, reqs |-> the fetch calls]
BuildRequests(v, loc, d, em, file) ==
  CASE v = "range" ->
         LET q == <<<<"location", encodeURIComponent(loc)>>>> \o DateQuery(d)
                    \o <<<<"email", encodeURIComponent(em)>>>>
         IN IF QueryThrows(q)
            THEN [threw |-> TRUE, reqs |-> <<>>]
            ELSE [threw |-> FALSE, reqs |-> <<GetRequest(v, q)>>]
    [] v = "single" ->
         LET q == <<<<"location", encodeURIComponent(loc)>>,
                    <<"date", formatDateForWebhook(d)>>,
                    <<"email", encodeURIComponent(em)>>>>
         IN IF QueryThrows(q)
            THEN [threw |-> TRUE, reqs |-> <<>>]
            ELSE [threw |-> FALSE, reqs |-> <<GetRequest(v, q)>>]
    [] v = "option" ->
         IF file /= NoFile
         THEN [threw |-> FALSE,
               reqs |-> <<PostRequest(v, <<<<"file", file>>, <<"location", loc>>,
                                           <<"dateOption", d.opt>>, <<"email", em>>>>)>>]
         ELSE [threw |-> FALSE,
               reqs |-> <<GetRequest(v, <<<<"location", encodeURIComponent(loc)>>,
                                          <<"dateOption", encodeURIComponent(d.opt)>>,
                                          <<"email", encodeURIComponent(em)>>>>)>>]

hasDateRange(r) == r.dateFrom /= Absent /\ r.dateTo /= Absent

\* a response check that forgets urlOfSecurityReport
Accepts_NoUrl(v, r) ==
  /\ r.kind = "json"
  /\ Truthy(r.location)
  /\ Truthy(r.email)
  /\ CASE v = "range" -> Truthy(r.date) \/ hasDateRange(r)
       [] v = "single" -> Truthy(r.date)
       [] v = "option" -> TRUE

\* a response check that asks every variant for a date
Accepts_DateAlways(v, r) ==
  /\ r.kind = "json"
  /\ Truthy(r.location)
  /\ Truthy(r.email)
  /\ Truthy(r.urlOfSecurityReport)
  /\ Truthy(r.date)

\* the response passes every check between the await and the construction
\* of the record
Accepts(v, r) ==
  /\ r.kind = "json"
  /\ Truthy(r.location)
  /\ Truthy(r.email)
  /\ Truthy(r.urlOfSecurityReport)
  /\ CASE v = "range" -> Truthy(r.date) \/ hasDateRange(r)
       [] v = "single" -> Truthy(r.date)
       [] v = "option" -> TRUE

\* a record that reads the date of the form when the response arrives
ReportDate_Current(v, r, captured) ==
  CASE v = "range" ->
         IF hasDateRange(r)
         THEN RangeOf(NewDate(r.dateFrom), NewDate(r.dateTo))
         ELSE NewDate(r.date)
    [] v = "single" -> NewDate(r.date)
    [] v = "option" -> date

\* the date of the new record
ReportDate(v, r, captured) ==
  CASE v = "range" ->
         IF hasDateRange(r)
         THEN RangeOf(NewDate(r.dateFrom), NewDate(r.dateTo))
         ELSE NewDate(r.date)
    [] v = "single" -> NewDate(r.date)
    [] v = "option" -> captured

NewReport(v, r, captured, clock) ==
  [id |-> clock,
   location |-> r.location,
   date |-> ReportDate(v, r, captured),
   email |-> r.email,
   reportUrl |-> r.urlOfSecurityReport,
   generatedAt |-> clock]

\* a list update that appends
handleReportGenerated_Append(prevReports, newReport) == Append(prevReports, newReport)

\* a list update that keeps only the new record
handleReportGenerated_Replace(prevReports, newReport) == <<newReport>>

\* setReports((prevReports) => [newReport, ...prevReports])
handleReportGenerated(prevReports, newReport) == <<newReport>> \o prevReports

RemoveAt(s, i) == SubSeq(s, 1, i - 1) \o SubSeq(s, i + 1, Len(s))

-----------------------------------------------------------------------------
(* Strings, character by character *)

Lowers == "abcdefghijklmnopqrstuvwxyz"
Uppers == "ABCDEFGHIJKLMNOPQRSTUVWXYZ"
Digits == "0123456789"

CharAt(s, i) == SubSeq(s, i, i)
CharsOf(s) == {CharAt(s, i) : i \in 1..Len(s)}
Least(S) == CHOOSE x \in S : \A y \in S : x <= y

\* the literal lit stands in s at position i
HasAt(s, i, lit) ==
  /\ i + Len(lit) - 1 <= Len(s)
  /\ SubSeq(s, i, i + Len(lit) - 1) = lit

\* where the longest run of characters of cs that starts at i ends
\* (i - 1 when the run is empty): a greedy cs+ or cs*
RunEnd(s, i, cs) ==
  LET stops == {k \in i..Len(s) : CharAt(s, k) \notin cs}
  IN IF stops = {} THEN Len(s) ELSE Least(stops) - 1

\* [a-zA-Z0-9_-]
IdChars == CharsOf(Lowers) \cup CharsOf(Uppers) \cup CharsOf(Digits) \cup {"_", "-"}

\* \s, as far as the sample strings go
SpaceChars == {" "}

NoMatch == "<no match>"

\* url.match(/prefix([a-zA-Z0-9_-]+)suffix/)[1], or NoMatch: the leftmost
\* position where the prefix, a non-empty greedy run of id characters and
\* the suffix follow each other (no shorter run can be followed by a suffix
\* that starts with "/", which is not an id character)
MatchId(s, prefix, suffix) ==
  LET starts == {i \in 1..Len(s) :
                   /\ HasAt(s, i, prefix)
                   /\ LET b == i + Len(prefix)
                          e == RunEnd(s, b, IdChars)
                      IN e >= b /\ HasAt(s, e + 1, suffix)}
  IN IF starts = {}
     THEN NoMatch
     ELSE LET b == Least(starts) + Len(prefix)
          IN SubSeq(s, b, RunEnd(s, b, IdChars))

\* String.prototype.toLowerCase
LowerChar(c) ==
  IF \E i \in 1..Len(Uppers) : CharAt(Uppers, i) = c
  THEN CharAt(Lowers, CHOOSE i \in 1..Len(Uppers) : CharAt(Uppers, i) = c)
  ELSE c

RECURSIVE toLowerCase(_)
toLowerCase(s) ==
  IF s = "" THEN "" ELSE LowerChar(CharAt(s, 1)) \o toLowerCase(SubSeq(s, 2, Len(s)))

\* replace(/\s+/g, "-")
RECURSIVE DashSpaces(_)
DashSpaces(s) ==
  IF s = "" THEN ""
  ELSE IF CharAt(s, 1) \in SpaceChars
       THEN "-" \o DashSpaces(SubSeq(s, RunEnd(s, 1, SpaceChars) + 1, Len(s)))
       ELSE CharAt(s, 1) \o DashSpaces(SubSeq(s, 2, Len(s)))

\* replace(/[^a-zA-Z0-9-_]/g, "_")
RECURSIVE SafeLocation(_)
SafeLocation(s) ==
  IF s = "" THEN ""
  ELSE (IF CharAt(s, 1) \in IdChars THEN CharAt(s, 1) ELSE "_")
       \o SafeLocation(SubSeq(s, 2, Len(s)))

\* replace(/(\d+)(st|nd|rd|th)/, "$1"): the first digit run that is followed
\* by an ordinal suffix loses the suffix
StripOrdinal(s) ==
  LET ds == CharsOf(Digits)
      starts == {i \in 1..Len(s) :
                   /\ CharAt(s, i) \in ds
                   /\ LET e == RunEnd(s, i, ds)
                      IN \E suf \in {"st", "nd", "rd", "th"} : HasAt(s, e + 1, suf)}
  IN IF starts = {}
     THEN s
     ELSE LET e == RunEnd(s, Least(starts), ds)
          IN SubSeq(s, 1, e) \o SubSeq(s, e + 3, Len(s))

-----------------------------------------------------------------------------
(* Documents viewer *)

DocVariants == {"plain", "filter"}
NoError == "<null>"
DocIds == 1..MaxDocs

Contents ==
  {"gate left open",
   "dateOfReport:\"2025-03-23\" perimeter check",
   "dateOfReport:\"2025-03-24\" night patrol"}

\* the metadata column: null, or an object whose fields are strings or
\* missing
NullMetadata ==
  [isNull |-> TRUE, location |-> Absent, type |-> Absent, source |-> Absent]
MetadataOf(l, t, s) == [isNull |-> FALSE, location |-> l, type |-> t, source |-> s]

\* content and metadata of the rows the table can hold
SampleDocs ==
  {[content |-> "gate left open", metadata |-> NullMetadata],
   [content |-> "dateOfReport:\"2025-03-23\" perimeter check",
    metadata |-> MetadataOf("London", "Incident", "patrol")],
   [content |-> "dateOfReport:\"2025-03-24\" night patrol",
    metadata |-> MetadataOf("Leeds", Absent, "CCTV")]}

\* content.match(/dateOfReport:"(\d{4}-\d{2}-\d{2})"/), null as Absent: the
\* ten characters after the leftmost marker that is followed by four digits,
\* a dash, two digits, a dash, two digits and a double quote
extractDateFromContent(content) ==
  LET lit == "dateOfReport:\""
      ds == CharsOf(Digits)
      DigitsAt(a, b) == \A k \in a..b : CharAt(content, k) \in ds
      starts == {i \in 1..Len(content) :
                   /\ HasAt(content, i, lit)
                   /\ LET b == i + Len(lit)
                      IN /\ b + 10 <= Len(content)
                         /\ DigitsAt(b, b + 3)
                         /\ CharAt(content, b + 4) = "-"
                         /\ DigitsAt(b + 5, b + 6)
                         /\ CharAt(content, b + 7) = "-"
                         /\ DigitsAt(b + 8, b + 9)
                         /\ CharAt(content, b + 10) = "\""}
  IN IF content = "" \/ starts = {}
     THEN Absent
     ELSE LET b == Least(starts) + Len(lit) IN SubSeq(content, b, b + 9)

\* the rows a successful query returns: at most MaxDocs, by id descending
QueryResults ==
  {q \in UNION {[1..n -> {[id |-> i, content |-> d.content, metadata |-> d.metadata] :
                            i \in DocIds, d \in SampleDocs}] : n \in 0..MaxDocs} :
     \A i \in 1..Len(q) - 1 : q[i].id > q[i + 1].id}

\* a comparator that puts the earliest date first
CompareDocs_OldestFirst(a, b) ==
  LET dateA == extractDateFromContent(a.content)
      dateB == extractDateFromContent(b.content)
  IN CASE dateA = Absent /\ dateB = Absent -> b.id - a.id
       [] dateA = Absent -> 1
       [] dateB = Absent -> 0 - 1
       [] OTHER -> NewDate(dateA).day - NewDate(dateB).day

\* the comparator handed to sort: negative, zero or positive
CompareDocs(a, b) ==
  LET dateA == extractDateFromContent(a.content)
      dateB == extractDateFromContent(b.content)
  IN CASE dateA = Absent /\ dateB = Absent -> b.id - a.id
       [] dateA = Absent -> 1
       [] dateB = Absent -> 0 - 1
       [] OTHER -> NewDate(dateB).day - NewDate(dateA).day

\* x placed after the entries of the sorted list that do not follow it
InsertDoc(x, sorted) ==
  LET after == {i \in 1..Len(sorted) : CompareDocs(sorted[i], x) > 0}
      k == IF after = {} THEN Len(sorted) + 1
           ELSE CHOOSE i \in after : \A j \in after : i <= j
  IN SubSeq(sorted, 1, k - 1) \o <<x>> \o SubSeq(sorted, k, Len(sorted))

RECURSIVE SortDocs(_)
\* Array.prototype.sort with CompareDocs (a stable sort)
SortDocs(data) ==
  IF data = <<>> THEN <<>>
  ELSE InsertDoc(data[Len(data)], SortDocs(SubSeq(data, 1, Len(data) - 1)))

\* what the catch block stores: the message of an Error, else the fixed text
FetchErrors == {"Failed to fetch", "An error occurred"}

FilterFields == {"location", "type", "source", "content", "dateFrom", "dateTo"}

\* useState of the filters, and what clearFilters stores
EmptyFilters ==
  [location |-> "", type |-> "", source |-> "", content |-> "",
   dateFrom |-> "", dateTo |-> ""]

\* what the user can have in a filter input; a date input holds "" or
\* yyyy-MM-dd
FilterTexts(field) ==
  CASE field = "location" -> {"", "lon"}
    [] field = "type" -> {"", "INC"}
    [] field = "source" -> {"", "cctv"}
    [] field = "content" -> {"", "Patrol"}
    [] field = "dateFrom" -> {"", "2025-03-24"}
    [] field = "dateTo" -> {"", "2025-03-23"}

\* String.prototype.includes
Includes(s, part) == part = "" \/ \E i \in 1..Len(s) : HasAt(s, i, part)

\* the characters of a date text in the order of their code units
DateChars == "-0123456789"
CodeUnitRank(c) == CHOOSE i \in 1..Len(DateChars) : CharAt(DateChars, i) = c

RECURSIVE StringLess(_, _)
\* a < b of two strings: by code units, a proper prefix first
StringLess(a, b) ==
  IF b = "" THEN FALSE
  ELSE IF a = "" THEN TRUE
  ELSE IF CharAt(a, 1) = CharAt(b, 1)
       THEN StringLess(SubSeq(a, 2, Len(a)), SubSeq(b, 2, Len(b)))
       ELSE CodeUnitRank(CharAt(a, 1)) < CodeUnitRank(CharAt(b, 1))

\* doc.metadata?.[field]
MetadataField(doc, field) ==
  IF doc.metadata.isNull THEN Absent ELSE doc.metadata[field]

\* doc.metadata?.[field]?.toLowerCase().includes(text.toLowerCase())
MetadataIncludes(doc, field, text) ==
  /\ MetadataField(doc, field) /= Absent
  /\ Includes(toLowerCase(MetadataField(doc, field)), toLowerCase(text))

\* a filter pass that lets a row through when any one filter matches
ApplyFilters_AnyFilter(docs, f) ==
  LET Test(doc) ==
        \/ f = EmptyFilters
        \/ f.location /= "" /\ MetadataIncludes(doc, "location", f.location)
        \/ f.type /= "" /\ MetadataIncludes(doc, "type", f.type)
        \/ f.source /= "" /\ MetadataIncludes(doc, "source", f.source)
        \/ f.content /= "" /\ Includes(toLowerCase(doc.content), toLowerCase(f.content))
        \/ /\ f.dateFrom /= ""
           /\ extractDateFromContent(doc.content) /= Absent
           /\ ~StringLess(extractDateFromContent(doc.content), f.dateFrom)
        \/ /\ f.dateTo /= ""
           /\ extractDateFromContent(doc.content) /= Absent
           /\ ~StringLess(f.dateTo, extractDateFromContent(doc.content))
  IN SelectSeq(docs, Test)

\* the body of the filter effect: one pass per filter that is not empty
ApplyFilters(docs, f) ==
  LET ByLocation(doc) == MetadataIncludes(doc, "location", f.location)
      ByType(doc) == MetadataIncludes(doc, "type", f.type)
      BySource(doc) == MetadataIncludes(doc, "source", f.source)
      ByContent(doc) == Includes(toLowerCase(doc.content), toLowerCase(f.content))
      ByDateFrom(doc) ==
        LET docDate == extractDateFromContent(doc.content)
        IN docDate /= Absent /\ ~StringLess(docDate, f.dateFrom)
      ByDateTo(doc) ==
        LET docDate == extractDateFromContent(doc.content)
        IN docDate /= Absent /\ ~StringLess(f.dateTo, docDate)
      f1 == IF f.location /= "" THEN SelectSeq(docs, ByLocation) ELSE docs
      f2 == IF f.type /= "" THEN SelectSeq(f1, ByType) ELSE f1
      f3 == IF f.source /= "" THEN SelectSeq(f2, BySource) ELSE f2
      f4 == IF f.content /= "" THEN SelectSeq(f3, ByContent) ELSE f3
      f5 == IF f.dateFrom /= "" THEN SelectSeq(f4, ByDateFrom) ELSE f4
      f6 == IF f.dateTo /= "" THEN SelectSeq(f5, ByDateTo) ELSE f5
  IN f6

\* the mount effects: fetchDocuments runs up to its await, and the filter
\* effect filters the empty list
FetchDocuments ==
  /\ docPc = "mounted"
  /\ docPc' = "awaiting"
  /\ docLoading' = TRUE
  /\ filteredDocuments' = IF docVariant = "filter"
                          THEN ApplyFilters(documents, filters)
                          ELSE filteredDocuments
  /\ UNCHANGED <<docVariant, documents, docError, filters, filterPending, exported,
                 formVars, upVars, dlVars>>

\* fetchDocuments resumes with rows; the new documents array makes the
\* filter effect due
DocsLoaded(data) ==
  /\ docPc = "awaiting"
  /\ docPc' = "done"
  /\ documents' = IF docVariant = "filter" THEN SortDocs(data) ELSE data
  /\ filteredDocuments' = IF docVariant = "filter" THEN SortDocs(data)
                          ELSE filteredDocuments
  /\ filterPending' = (docVariant = "filter")
  /\ docLoading' = FALSE
  /\ UNCHANGED <<docVariant, docError, filters, exported, formVars, upVars, dlVars>>

\* fetchDocuments resumes with an error
DocsFailed(msg) ==
  /\ docPc = "awaiting"
  /\ docPc' = "done"
  /\ docError' = msg
  /\ docLoading' = FALSE
  /\ UNCHANGED <<docVariant, documents, filteredDocuments, filters, filterPending,
                 exported, formVars, upVars, dlVars>>

\* the filter effect runs after the render that changed documents or filters
FilterEffect ==
  /\ docVariant = "filter"
  /\ filterPending
  /\ filteredDocuments' = ApplyFilters(documents, filters)
  /\ filterPending' = FALSE
  /\ UNCHANGED <<docVariant, documents, docLoading, docError, docPc, filters,
                 exported, formVars, upVars, dlVars>>

\* the filter inputs and buttons are rendered: rows loaded, no error, and
\* the effect of the previous render has run
FiltersShown ==
  /\ docVariant = "filter"
  /\ docPc = "done"
  /\ docError = NoError
  /\ ~filterPending

\* onChange of a filter input
SetFilter(field, text) ==
  /\ FiltersShown
  /\ filters' = [filters EXCEPT ![field] = text]
  /\ filterPending' = TRUE
  /\ UNCHANGED <<docVariant, documents, filteredDocuments, docLoading, docError,
                 docPc, exported, formVars, upVars, dlVars>>

\* onClick of Clear Filters
clearFilters ==
  /\ FiltersShown
  /\ filters' = EmptyFilters
  /\ filterPending' = TRUE
  /\ UNCHANGED <<docVariant, documents, filteredDocuments, docLoading, docError,
                 docPc, exported, formVars, upVars, dlVars>>

NoExport == "<none>"

CsvHeader == <<"ID", "Content", "Location", "Date", "Time", "Type", "Source">>

\* value || ''
OrEmpty(value) == IF value = Absent THEN "" ELSE value

RECURSIVE DoubleQuotes(_)
\* replace(/"/g, '""')
DoubleQuotes(s) ==
  IF s = "" THEN ""
  ELSE (IF CharAt(s, 1) = "\"" THEN "\"\"" ELSE CharAt(s, 1))
       \o DoubleQuotes(SubSeq(s, 2, Len(s)))

\* a content cell that is wrapped but whose quotes are left single
ContentCell_Wrapped(content) == "\"" \o content \o "\""

\* `"${(doc.content || '').replace(/"/g, '""')}"`
ContentCell(content) == "\"" \o DoubleQuotes(content) \o "\""

\* the array made for one document
CsvRow(doc) ==
  <<ToString(doc.id),
    ContentCell(doc.content),
    OrEmpty(MetadataField(doc, "location")),
    OrEmpty(extractDateFromContent(doc.content)),
    "",
    OrEmpty(MetadataField(doc, "type")),
    OrEmpty(MetadataField(doc, "source"))>>

RECURSIVE Join(_, _)
\* Array.prototype.join of strings
Join(parts, sep) ==
  IF parts = <<>> THEN ""
  ELSE IF Len(parts) = 1 THEN parts[1]
  ELSE parts[1] \o sep \o Join(Tail(parts), sep)

\* [header, ...rows].map(row => row.join(",")).join("\n")
csvContent(docs) ==
  Join([i \in 1..Len(docs) + 1 |->
          Join(IF i = 1 THEN CsvHeader ELSE CsvRow(docs[i - 1]), ",")], "\n")

\* onClick of Export CSV, rendered once the rows are there: the text is
\* built from the filtered rows, the object URL is created, the anchor
\* clicked and the URL revoked in one run; ok is false when a step between
\* creation and revocation throws
exportToCSV(ok) ==
  /\ FiltersShown
  /\ urlsCreated < MaxObjectUrls
  /\ exported' = csvContent(filteredDocuments)
  /\ urlsCreated' = urlsCreated + 1
  /\ urlsRevoked' = IF ok THEN urlsRevoked + 1 ELSE urlsRevoked
  /\ dlLastOp' = IF ok THEN "exported" ELSE "export threw"
  /\ UNCHANGED <<dlPending, dlStarted, dlAlert, docVariant, documents,
                 filteredDocuments, docLoading, docError, docPc, filters,
                 filterPending, formVars, upVars>>

NextDocs ==
  \/ FetchDocuments
  \/ docPc = "awaiting" /\ \E data \in QueryResults : DocsLoaded(data)
  \/ \E msg \in FetchErrors : DocsFailed(msg)
  \/ FilterEffect
  \/ \E ok \in BOOLEAN : exportToCSV(ok)

\* the viewer with its filter inputs in use
NextFilters ==
  \/ FetchDocuments
  \/ docPc = "awaiting" /\ \E data \in QueryResults : DocsLoaded(data)
  \/ FilterEffect
  \/ \E field \in FilterFields : \E text \in FilterTexts(field) : SetFilter(field, text)
  \/ clearFilters

\* the filters a user narrows the list with before exporting it
ExportFilterFields == {"content", "dateFrom"}

\* the viewer with its export button in use
NextExport ==
  \/ FetchDocuments
  \/ docPc = "awaiting" /\ \E data \in QueryResults : DocsLoaded(data)
  \/ FilterEffect
  \/ \E field \in ExportFilterFields : \E text \in FilterTexts(field) :
       SetFilter(field, text)
  \/ exportToCSV(TRUE)

-----------------------------------------------------------------------------
(* CSV uploader *)

UploadVariants == {"url", "fixed"}

FixedUploadUrl ==
  "https://primary-production-b5ec.up.railway.app/webhook/64ae32ba-582c-4921-8452-5e0d81256d00"

\* what the user can type into the webhook URL input
UploadUrls == {"https://hooks.example/csv"}

\* file state null, and e.target.files?.[0] of an emptied selection
NullFile == [name |-> "<null>", type |-> "<null>"]
NoSelection == [name |-> "<undefined>", type |-> "<undefined>"]

\* what the file dialog can hand over
PickableFiles ==
  {[name |-> "guards.csv", type |-> "text/csv"],
   [name |-> "rota.csv", type |-> "application/vnd.ms-excel"],
   [name |-> "notes.txt", type |-> "text/plain"]}

\* selectedFile.name.endsWith('.csv')
EndsWithCsv(name) == name \in {"guards.csv", "rota.csv"}

UploadOkTitle(uv) == IF uv = "url" THEN "CSV uploaded successfully" ELSE "Success"
UploadFailedTitle == "Upload failed"
InvalidFileTitle == "Invalid file type"

\* the file handleFileChange accepts
FileAccepted(uv, f) ==
  IF uv = "url"
  THEN f /= NoSelection /\ f.type = "text/csv"
  ELSE f /= NoSelection /\ (f.type = "text/csv" \/ EndsWithCsv(f.name))

\* onChange of the file input: the dialog has put f into the input
handleFileChange(f) ==
  /\ upLastOp' = "pick"
  /\ upInput' = f
  /\ IF FileAccepted(upVariant, f)
     THEN upFile' = f /\ upToast' = upToast
     ELSE /\ upFile' = upFile
          /\ upToast' = IF upVariant = "fixed" /\ f = NoSelection
                        THEN upToast ELSE InvalidFileTitle
  /\ UNCHANGED <<upVariant, upUrl, isUploading, upInflight, upSent, formVars,
                 docVars, dlVars>>

\* onChange of the webhook URL input (url variant)
SetWebhookUrl(u) ==
  /\ upVariant = "url"
  /\ upUrl' = u
  /\ upLastOp' = "edit"
  /\ UNCHANGED <<upVariant, upFile, isUploading, upInflight, upSent, upToast,
                 upInput, formVars, docVars, dlVars>>

\* the upload button is enabled
UploadEnabled ==
  IF upVariant = "url"
  THEN ~(isUploading \/ upFile = NullFile \/ upUrl = "")
  ELSE ~(upFile = NullFile \/ isUploading)

\* handleSubmit / handleUpload up to the first await
Upload ==
  /\ UploadEnabled
  /\ upSent + Len(upInflight) < MaxUploads
  /\ upLastOp' = "upload"
  /\ IF upFile = NullFile
     THEN /\ upToast' = IF upVariant = "url" THEN "No file selected"
                        ELSE "Missing requirements"
          /\ UNCHANGED <<isUploading, upInflight, upSent>>
     ELSE IF upUrl = ""
     THEN /\ upToast' = IF upVariant = "url" THEN "No webhook URL"
                        ELSE "Webhook not configured"
          /\ UNCHANGED <<isUploading, upInflight, upSent>>
     ELSE /\ isUploading' = TRUE
          /\ upToast' = upToast
          /\ IF upVariant = "url"
             THEN /\ upInflight' = Append(upInflight,
                                     [phase |-> "text", file |-> upFile, url |-> upUrl])
                  /\ upSent' = upSent
             ELSE /\ upInflight' = Append(upInflight,
                                     [phase |-> "fetch", file |-> upFile, url |-> upUrl])
                  /\ upSent' = upSent + 1
  /\ UNCHANGED <<upVariant, upFile, upUrl, upInput, formVars, docVars, dlVars>>

\* await file.text() settles (url variant)
UploadTextRead(i, ok) ==
  /\ upInflight[i].phase = "text"
  /\ upLastOp' = IF ok THEN "read" ELSE "failed"
  /\ IF ok
     THEN /\ upInflight' = [upInflight EXCEPT ![i].phase = "fetch"]
          /\ upSent' = upSent + 1
          /\ UNCHANGED <<isUploading, upToast>>
     ELSE /\ upInflight' = RemoveAt(upInflight, i)
          /\ upToast' = UploadFailedTitle
          /\ isUploading' = FALSE
          /\ upSent' = upSent
  /\ UNCHANGED <<upVariant, upFile, upUrl, upInput, formVars, docVars, dlVars>>

UploadOutcomes == {"neterr", "status", "ok"}

\* a completion that resets the form on every outcome
UploadRespond_ResetsAlways(i, out) ==
  /\ upInflight[i].phase = "fetch"
  /\ upInflight' = RemoveAt(upInflight, i)
  /\ isUploading' = FALSE
  /\ upToast' = IF out = "ok" THEN UploadOkTitle(upVariant) ELSE UploadFailedTitle
  /\ upLastOp' = IF out = "ok" THEN "uploaded" ELSE "failed"
  /\ upFile' = NullFile
  /\ upUrl' = IF upVariant = "url" THEN "" ELSE upUrl
  /\ upInput' = NoSelection
  /\ UNCHANGED <<upVariant, upSent, formVars, docVars, dlVars>>

\* await fetch() settles and the handler runs to the end of its finally block
UploadRespond(i, out) ==
  /\ upInflight[i].phase = "fetch"
  /\ upInflight' = RemoveAt(upInflight, i)
  /\ isUploading' = FALSE
  /\ IF out = "ok"
     THEN /\ upToast' = UploadOkTitle(upVariant)
          /\ upFile' = NullFile
          /\ upUrl' = IF upVariant = "url" THEN "" ELSE upUrl
          /\ upInput' = NoSelection
          /\ upLastOp' = "uploaded"
     ELSE /\ upToast' = UploadFailedTitle
          /\ upLastOp' = "failed"
          /\ UNCHANGED <<upFile, upUrl, upInput>>
  /\ UNCHANGED <<upVariant, upSent, formVars, docVars, dlVars>>

NextCsv ==
  \/ \E f \in PickableFiles \cup {NoSelection} : handleFileChange(f)
  \/ \E u \in UploadUrls \cup {""} : SetWebhookUrl(u)
  \/ Upload
  \/ \E i \in 1..Len(upInflight) : \E ok \in BOOLEAN : UploadTextRead(i, ok)
  \/ \E i \in 1..Len(upInflight) : \E out \in UploadOutcomes : UploadRespond(i, out)

CsvInit(uv) ==
  /\ upVariant = uv
  /\ upFile = NullFile
  /\ upUrl = IF uv = "url" THEN "" ELSE FixedUploadUrl
  /\ isUploading = FALSE
  /\ upInflight = <<>>
  /\ upSent = 0
  /\ upToast = NoToast
  /\ upLastOp = "none"
  /\ upInput = NoSelection

-----------------------------------------------------------------------------
(* Link resolution of the report list *)

NoUrl == "<null>"

\* a || b
OrElse(a, b) == IF a \in {NoUrl, Absent, ""} THEN b ELSE a

\* a resolver whose pattern lacks the file/d/ segment
getGoogleDriveDownloadUrl_AnyPath(url) ==
  IF url = Absent
  THEN NoUrl
  ELSE LET fileId == MatchId(url, "https://drive.google.com/", "")
       IN IF fileId /= NoMatch /\ fileId /= ""
          THEN "https://drive.google.com/uc?export=download&id=" \o fileId
          ELSE NoUrl

\* the trailing \/? of the pattern matches the empty string when no slash
\* follows; url.match on a value that is not a string throws into the catch
getGoogleDriveDownloadUrl(url) ==
  IF url = Absent
  THEN NoUrl
  ELSE LET fileId == MatchId(url, "https://drive.google.com/file/d/", "")
       IN IF fileId /= NoMatch /\ fileId /= ""
          THEN "https://drive.google.com/uc?export=download&id=" \o fileId
          ELSE NoUrl

getGoogleDocsPdfExportUrl(url) ==
  IF url = Absent
  THEN NoUrl
  ELSE LET fileId == MatchId(url, "https://docs.google.com/document/d/", "/edit")
       IN IF fileId /= NoMatch /\ fileId /= ""
          THEN "https://docs.google.com/document/d/" \o fileId \o "/export?format=pdf"
          ELSE NoUrl

\* a list that tries the Drive rewrite before the Docs rewrite
downloadUrl_DriveFirst(report) ==
  OrElse(getGoogleDriveDownloadUrl(report.reportUrl),
         OrElse(getGoogleDocsPdfExportUrl(report.reportUrl), report.reportUrl))

\* docsPdfUrl || directDownloadUrl || report.reportUrl
downloadUrl(report) ==
  OrElse(getGoogleDocsPdfExportUrl(report.reportUrl),
         OrElse(getGoogleDriveDownloadUrl(report.reportUrl), report.reportUrl))

-----------------------------------------------------------------------------
(* Date labels and filename tokens *)

\* a property that the object does not have at all ('to' in date is false)
NoKey == [kind |-> "missing"]

\* what parseReportDate returns when nothing parses
NullDate == [kind |-> "null"]

IsValidDate(d) == d.kind = "date" /\ d.day /= InvalidDay

\* rendered content: a string, a <span> holding a string, or no content
\* because the render threw
Text(s) == [el |-> "text", text |-> s]
Span(s) == [el |-> "span", text |-> s]
RedSpan(s) == [el |-> "span.text-red-500", text |-> s]
Thrown == [el |-> "<throws>", text |-> "RangeError: Invalid time value"]

\* format(date, pattern) of date-fns: throws on anything but a valid instant
format(d, pattern) ==
  IF ~IsValidDate(d)
  THEN Throws
  ELSE CASE pattern = "yyyy-MM-dd" -> formatDateForWebhook(d)
         [] pattern = "MMM d, yyyy" /\ d.day = 1 -> "Mar 23, 2025"
         [] pattern = "MMM d, yyyy" /\ d.day = 2 -> "Mar 24, 2025"
         [] pattern = "PPP" /\ d.day = 1 -> "March 23rd, 2025"
         [] pattern = "PPP" /\ d.day = 2 -> "March 24th, 2025"

\* the text of one date or of a pair, shared by the labels below
TextOrThrown(s) == IF s = Throws THEN Thrown ELSE Text(s)

\* a label that never collapses equal endpoints
PairLabel_NeverCollapses(from, to, pattern) ==
  LET fromFormatted == format(from, pattern)
      toFormatted == format(to, pattern)
  IN IF fromFormatted = Throws \/ toFormatted = Throws
     THEN Thrown
     ELSE Text(fromFormatted \o " - " \o toFormatted)

PairLabel(from, to, pattern) ==
  LET fromFormatted == format(from, pattern)
      toFormatted == format(to, pattern)
  IN IF fromFormatted = Throws \/ toFormatted = Throws
     THEN Thrown
     ELSE IF from.day = to.day
          THEN Text(fromFormatted)
          ELSE Text(fromFormatted \o " - " \o toFormatted)

\* a parser that takes strings only
parseReportDate_StringsOnly(d) ==
  CASE d.kind = "option" ->
         IF IsValidDate(NewDate(d.opt))
         THEN NewDate(d.opt)
         ELSE IF IsValidDate(NewDate(StripOrdinal(d.opt)))
              THEN NewDate(StripOrdinal(d.opt))
              ELSE NullDate
    [] OTHER -> NullDate

parseReportDate(d) ==
  CASE IsValidDate(d) -> d
    [] d.kind = "option" ->
         IF IsValidDate(NewDate(d.opt))
         THEN NewDate(d.opt)
         ELSE IF IsValidDate(NewDate(StripOrdinal(d.opt)))
              THEN NewDate(StripOrdinal(d.opt))
              ELSE NullDate
    [] OTHER -> NullDate

ListVariants == {"components", "page"}

\* the "Date Requested" cell of a card
displayDate(lv, report) ==
  LET d == report.date
  IN CASE lv = "components" ->
            IF DateFalsy(d)
            THEN RedSpan("Date missing")
            ELSE IF d.kind = "range" /\ d.from.kind /= "missing" /\ d.to.kind /= "missing"
                 THEN IF d.from.kind /= "none" /\ d.to.kind /= "none"
                      THEN PairLabel(d.from, d.to, "MMM d, yyyy")
                      ELSE RedSpan("Invalid date range")
                 ELSE IF d.kind = "option"
                      THEN Text(d.opt)
                      ELSE IF parseReportDate(d) /= NullDate
                           THEN Text(format(parseReportDate(d), "MMM d, yyyy"))
                           ELSE RedSpan("Invalid date")
       [] lv = "page" ->
            IF DateFalsy(d)
            THEN RedSpan("Invalid date")
            ELSE IF d.kind = "range" /\ d.from.kind = "date" /\ d.to.kind = "date"
                 THEN IF IsValidDate(d.from) /\ IsValidDate(d.to)
                      THEN PairLabel(d.from, d.to, "MMM d, yyyy")
                      ELSE RedSpan("Invalid date")
                 ELSE IF IsValidDate(d)
                      THEN Text(format(d, "MMM d, yyyy"))
                      ELSE RedSpan("Invalid date")

\* the date token of the download filename
formattedDate(lv, report) ==
  LET d == report.date
  IN CASE lv = "components" ->
            IF d.kind = "option" /\ d.opt /= ""
            THEN DashSpaces(toLowerCase(d.opt))
            ELSE IF d.kind = "range" /\ d.from.kind = "date"
                 THEN format(d.from, "yyyy-MM-dd")
                 ELSE IF d.kind = "date"
                      THEN format(d, "yyyy-MM-dd")
                      ELSE "unknown-date"
       [] lv = "page" ->
            IF parseReportDate(d) /= NullDate
            THEN format(parseReportDate(d), "yyyy-MM-dd")
            ELSE "unknown-date"

fileName(lv, report) ==
  IF formattedDate(lv, report) = Throws
  THEN Throws
  ELSE "security-report-" \o formattedDate(lv, report) \o "-"
       \o SafeLocation(report.location) \o ".pdf"

\* the callback of reports.map returns a card instead of throwing
RendersCard(lv, report) ==
  /\ displayDate(lv, report) /= Thrown
  /\ fileName(lv, report) /= Throws

\* the list renders: no card throws
Renders(lv, rs) == \A i \in 1..Len(rs) : RendersCard(lv, rs[i])

\* the label of the form's date button
getDateLabel(d) ==
  IF d.kind = "none"
  THEN Span("Select date")
  ELSE IF isDateRange(d)
       THEN IF d.from.kind /= "none" /\ d.to.kind /= "none"
            THEN PairLabel(d.from, d.to, "PPP")
            ELSE Span("Select date range")
       ELSE TextOrThrown(format(d, "PPP"))

-----------------------------------------------------------------------------
(* Report download *)

DownloadFailedAlert == "Download failed. Please try again."
NoAlert == "<none>"

\* onClick of a record's Download button in a list that rendered:
\* downloadFile(downloadUrl, fileName) up to await fetch
Download(lv, i) ==
  /\ dlStarted < MaxDownloads
  /\ Renders(lv, reports)
  /\ dlStarted' = dlStarted + 1
  /\ dlPending' = Append(dlPending,
                     [report |-> reports[i].id, list |-> lv,
                      url |-> downloadUrl(reports[i]),
                      filename |-> fileName(lv, reports[i]),
                      phase |-> "fetch"])
  /\ dlLastOp' = "click"
  /\ UNCHANGED <<urlsCreated, urlsRevoked, dlAlert, formVars, docVars, upVars>>

FetchOutcomes == {"neterr", "status", "ok"}

\* a download whose failed fetch raises no alert
DownloadFetched_Silent(k, out) ==
  /\ dlPending[k].phase = "fetch"
  /\ IF out = "ok"
     THEN /\ dlPending' = [dlPending EXCEPT ![k].phase = "blob"]
          /\ dlLastOp' = "fetched"
     ELSE /\ dlPending' = RemoveAt(dlPending, k)
          /\ dlLastOp' = "failed"
  /\ UNCHANGED <<dlAlert, dlStarted, urlsCreated, urlsRevoked, formVars, docVars, upVars>>

\* await fetch(url) settles
DownloadFetched(k, out) ==
  /\ dlPending[k].phase = "fetch"
  /\ IF out = "ok"
     THEN /\ dlPending' = [dlPending EXCEPT ![k].phase = "blob"]
          /\ dlLastOp' = "fetched"
          /\ dlAlert' = dlAlert
     ELSE /\ dlPending' = RemoveAt(dlPending, k)
          /\ dlLastOp' = "failed"
          /\ dlAlert' = DownloadFailedAlert
  /\ UNCHANGED <<dlStarted, urlsCreated, urlsRevoked, formVars, docVars, upVars>>

\* response.blob() rejects; the blob arrives and the object URL is created,
\* clicked and revoked; or a step between creation and revocation throws
BlobOutcomes == {"blob rejected", "saved", "threw after create"}

\* await response.blob() settles and downloadFile runs to its end
DownloadBlob(k, out) ==
  /\ dlPending[k].phase = "blob"
  /\ dlPending' = RemoveAt(dlPending, k)
  /\ CASE out = "saved" ->
            /\ urlsCreated' = urlsCreated + 1
            /\ urlsRevoked' = urlsRevoked + 1
            /\ dlLastOp' = "saved"
            /\ dlAlert' = dlAlert
       [] out = "threw after create" ->
            /\ urlsCreated' = urlsCreated + 1
            /\ urlsRevoked' = urlsRevoked
            /\ dlLastOp' = "failed"
            /\ dlAlert' = DownloadFailedAlert
       [] out = "blob rejected" ->
            /\ dlLastOp' = "failed"
            /\ dlAlert' = DownloadFailedAlert
            /\ UNCHANGED <<urlsCreated, urlsRevoked>>
  /\ UNCHANGED <<dlStarted, formVars, docVars, upVars>>

NextDownload ==
  \/ \E lv \in ListVariants : \E i \in 1..Len(reports) : Download(lv, i)
  \/ \E k \in 1..Len(dlPending) : \E out \in FetchOutcomes : DownloadFetched(k, out)
  \/ \E k \in 1..Len(dlPending) : \E out \in BlobOutcomes : DownloadBlob(k, out)

DlInit ==
  /\ dlPending = <<>>
  /\ dlStarted = 0
  /\ urlsCreated = 0
  /\ urlsRevoked = 0
  /\ dlAlert = NoAlert
  /\ dlLastOp = "none"

\* the report form and the page as mounted
FormInit(v) ==
  /\ variant = v
  /\ location = ""
  /\ date = InitialDate(variant)
  /\ email = ""
  /\ csvFile = NoFile
  /\ isLoading = FALSE
  /\ inflight = <<>>
  /\ sent = 0
  /\ accepted = 0
  /\ toast = NoToast
  /\ reports = <<>>
  /\ history = <<>>
  /\ now = 0
  /\ lastOp = "none"
  /\ lastResp = NoResp

\* the documents viewer as mounted: loading, nothing fetched yet
DocsInit(dv) ==
  /\ docVariant = dv
  /\ documents = <<>>
  /\ filteredDocuments = <<>>
  /\ docLoading = TRUE
  /\ docError = NoError
  /\ docPc = "mounted"
  /\ filters = EmptyFilters
  /\ filterPending = FALSE
  /\ exported = NoExport

Init ==
  /\ \E v \in FormVariants : FormInit(v)
  /\ DocsInit("filter")
  /\ CsvInit("url")
  /\ DlInit

\* onChange of the location input
SetLocation(l) ==
  /\ location' = l
  /\ lastOp' = "edit"
  /\ lastResp' = NoResp
  /\ UNCHANGED <<variant, date, email, csvFile, isLoading, inflight, sent,
                 accepted, toast, reports, history, now, docVars, upVars, dlVars>>

\* an email input whose onChange aborts the outstanding request
SetEmail_Cancels(e) ==
  /\ email' = e
  /\ isLoading' = FALSE
  /\ inflight' = <<>>
  /\ lastOp' = "edit"
  /\ lastResp' = NoResp
  /\ UNCHANGED <<variant, location, date, csvFile, sent,
                 accepted, toast, reports, history, now, docVars, upVars, dlVars>>

\* onChange of the email input
SetEmail(e) ==
  /\ email' = e
  /\ lastOp' = "edit"
  /\ lastResp' = NoResp
  /\ UNCHANGED <<variant, location, date, csvFile, isLoading, inflight, sent,
                 accepted, toast, reports, history, now, docVars, upVars, dlVars>>

\* what the calendar or the select hands to the date setter
CalendarSelections(v) ==
  CASE v = "range" ->
         {NoDate} \cup {[kind |-> "range", from |-> DateOf(f), to |-> NoDate] : f \in Days}
         \cup {RangeOf(DateOf(f), DateOf(t)) : f \in Days, t \in Days}
    [] v = "single" -> {NoDate} \cup {DateOf(d) : d \in Days}
    [] v = "option" -> {OptionOf(o) : o \in DateOptions}

\* a handler that stores whatever the calendar hands over
handleDateSelect_KeepsPartial(v, sel) == sel

\* handleDateSelect of the range variant; setDate itself in the others
handleDateSelect(v, sel) ==
  IF v = "range"
  THEN IF sel.kind = "none" \/ sel.from.kind = "none" \/ sel.to.kind = "none"
       THEN NoDate
       ELSE RangeOf(sel.from, sel.to)
  ELSE sel

SetDate(sel) ==
  /\ date' = handleDateSelect(variant, sel)
  /\ lastOp' = "edit"
  /\ lastResp' = NoResp
  /\ UNCHANGED <<variant, location, email, csvFile, isLoading, inflight, sent,
                 accepted, toast, reports, history, now, docVars, upVars, dlVars>>

\* onChange of the CSV file input and its Remove button (option variant)
SetCsvFile(f) ==
  /\ variant = "option"
  /\ csvFile' = f
  /\ lastOp' = "edit"
  /\ lastResp' = NoResp
  /\ UNCHANGED <<variant, location, date, email, isLoading, inflight, sent,
                 accepted, toast, reports, history, now, docVars, upVars, dlVars>>

\* handleSubmit up to its await
Submit ==
  /\ SubmitEnabled
  /\ lastResp' = NoResp
  /\ IF FormIncomplete(location, date, email)
     THEN /\ toast' = ValidationMsg
          /\ lastOp' = "submit"
          /\ UNCHANGED <<isLoading, inflight, sent, accepted>>
     ELSE /\ accepted < MaxSubmits
          /\ accepted' = accepted + 1
          /\ LET b == BuildRequests(variant, location, date, email, csvFile)
             IN IF b.threw
                THEN /\ isLoading' = FALSE
                     /\ toast' = FailureMsg
                     /\ lastOp' = "submit"
                     /\ UNCHANGED <<inflight, sent>>
                ELSE /\ isLoading' = TRUE
                     /\ toast' = toast
                     /\ lastOp' = "submit"
                     /\ sent' = sent + Len(b.reqs)
                     /\ inflight' = Append(inflight,
                                      [reqs |-> b.reqs, location |-> location,
                                       date |-> date, email |-> email,
                                       csvFile |-> csvFile])
  /\ UNCHANGED <<variant, location, date, email, csvFile, reports, history, now,
                 docVars, upVars, dlVars>>

\* a continuation without the finally block on its failure path
AfterResponse_NoFinally(accept) ==
  IF accept
  THEN [location |-> "", date |-> InitialDate(variant), email |-> "",
        csvFile |-> NoFile, toast |-> SuccessMsg, isLoading |-> FALSE]
  ELSE [location |-> location, date |-> date, email |-> email,
        csvFile |-> csvFile, toast |-> FailureMsg, isLoading |-> isLoading]

\* a continuation that resets the fields on every path
AfterResponse_ClearAlways(accept) ==
  [location |-> "", date |-> InitialDate(variant), email |-> "",
   csvFile |-> NoFile, toast |-> IF accept THEN SuccessMsg ELSE FailureMsg,
   isLoading |-> FALSE]

\* the form state after the continuation of handleSubmit has run
AfterResponse(accept) ==
  IF accept
  THEN [location |-> "", date |-> InitialDate(variant), email |-> "",
        csvFile |-> NoFile, toast |-> SuccessMsg, isLoading |-> FALSE]
  ELSE [location |-> location, date |-> date, email |-> email,
        csvFile |-> csvFile, toast |-> FailureMsg, isLoading |-> FALSE]

\* handleSubmit from its await to the end of the finally block
\* t is the client clock when the continuation runs
Respond(i, r, t) ==
  LET p == inflight[i]
      accept == Accepts(variant, r)
      after == AfterResponse(accept)
  IN /\ t <= MaxClock
     /\ inflight' = RemoveAt(inflight, i)
     /\ lastResp' = r
     /\ lastOp' = "respond"
     /\ now' = t
     /\ reports' = IF accept
                   THEN handleReportGenerated(reports, NewReport(variant, r, p.date, t))
                   ELSE reports
     /\ history' = IF accept
                   THEN Append(history, NewReport(variant, r, p.date, t))
                   ELSE history
     /\ location' = after.location
     /\ date' = after.date
     /\ email' = after.email
     /\ csvFile' = after.csvFile
     /\ toast' = after.toast
     /\ isLoading' = after.isLoading
     /\ UNCHANGED <<variant, sent, accepted, docVars, upVars, dlVars>>

Next ==
  \/ \E l \in Locations \cup {""} : SetLocation(l)
  \/ \E e \in Emails \cup {""} : SetEmail(e)
  \/ \E sel \in CalendarSelections(variant) : SetDate(sel)
  \/ \E f \in Files \cup {NoFile} : SetCsvFile(f)
  \/ Submit
  \/ \E i \in 1..Len(inflight) : \E r \in Responses : \E t \in {now, now + 1} :
       Respond(i, r, t)

Spec == Init /\ [][Next]_vars

\* the documents tab: either viewer source, mounted
InitDocs ==
  /\ FormInit("range")
  /\ \E dv \in DocVariants : DocsInit(dv)
  /\ CsvInit("url")
  /\ DlInit

SpecDocs == InitDocs /\ [][NextDocs]_vars

\* the documents tab of the filtering viewer
InitFilters ==
  /\ FormInit("range")
  /\ DocsInit("filter")
  /\ CsvInit("url")
  /\ DlInit

SpecFilters == InitFilters /\ [][NextFilters]_vars

SpecExport == InitFilters /\ [][NextExport]_vars

\* the upload card: either uploader source, mounted
InitCsv ==
  /\ FormInit("range")
  /\ DocsInit("filter")
  /\ \E uv \in UploadVariants : CsvInit(uv)
  /\ DlInit

SpecCsv == InitCsv /\ [][NextCsv]_vars

\* records the range variant of the form hands to the list
SampleReports ==
  {<<>>,
   <<[id |-> 0, location |-> "London", date |-> DateOf(1), email |-> "a@b.com",
      reportUrl |-> "https://docs.google.com/document/d/XYZ/edit", generatedAt |-> 0]>>,
   <<[id |-> 1, location |-> "London", date |-> RangeOf(DateOf(1), DateOf(2)),
      email |-> "a@b.com",
      reportUrl |-> "https://docs.google.com/document/d/XYZ/edit", generatedAt |-> 1],
     [id |-> 0, location |-> "London", date |-> DateOf(1), email |-> "a@b.com",
      reportUrl |-> "https://docs.google.com/document/d/XYZ/edit", generatedAt |-> 0]>>}

\* file identifiers of the sample links
FileIds == {"XYZ", "1a_B-9"}

DocsEditUrl(id, rest) == "https://docs.google.com/document/d/" \o id \o "/edit" \o rest
DriveFileUrl(id, rest) == "https://drive.google.com/file/d/" \o id \o rest

\* links that have neither shape, some of them nearly
OtherUrls ==
  {"https://example.com/reports/42.pdf",
   "https://docs.google.com/document/d/XYZ/view",
   "https://docs.google.com/document/d//edit",
   "https://drive.google.com/file/d/",
   "https://drive.google.com/open?id=1a_B-9",
   "http://drive.google.com/file/d/1a_B-9/view",
   "drive google com file d 1a_B-9"}

\* what urlOfSecurityReport can hold: any non-empty string
ReportUrls ==
  {DocsEditUrl("XYZ", ""), DocsEditUrl("1a_B-9", "?usp=sharing"),
   DriveFileUrl("1a_B-9", "/view?usp=sharing"), DriveFileUrl("XYZ", ""),
   DriveFileUrl("1a_B-9", "/view?from=" \o DocsEditUrl("XYZ", ""))}
  \cup OtherUrls

\* the Date objects a record can hold: new Date(s) of a response string
Instants == {DateOf(InvalidDay)} \cup {DateOf(d) : d \in Days}

\* the string dates a record can hold: the empty string, the options of the
\* select, and strings that parse at once, after cleaning, or never
DateStrings ==
  {"", "Today", "Next 7 Days", "soon", "2025-03-23", "March 23rd, 2025"}

\* the values of a record's date, by the type of the prop and beyond it:
\* undefined, an instant, a pair, a pair that lacks an endpoint, a string
ReportDates ==
  {NoDate} \cup Instants
  \cup {RangeOf(f, t) : f \in Instants, t \in Instants}
  \cup {RangeOf(DateOf(1), NoDate), RangeOf(DateOf(1), NoKey),
        RangeOf(NoDate, DateOf(1)), RangeOf(DateOf(InvalidDay), NoKey)}
  \cup {OptionOf(o) : o \in DateStrings}

ListRecord(d, u, l) ==
  [id |-> 0, location |-> l, date |-> d, email |-> "a@b.com", reportUrl |-> u,
   generatedAt |-> 0]

\* the props the list is rendered with
ListInputs ==
  SampleReports
  \cup {<<ListRecord(d, u, "London")>> : d \in ReportDates, u \in ReportUrls}
  \cup {<<ListRecord(d, DocsEditUrl("XYZ", ""), "St. John's Wood")>> : d \in ReportDates}

\* the page with a report list, the form idle
InitDownload ==
  /\ \E rs \in ListInputs :
       /\ reports = rs
       /\ history = [i \in 1..Len(rs) |-> rs[Len(rs) + 1 - i]]
  /\ variant = IF reports /= <<>> /\ reports[1].date.kind = "option"
               THEN "option" ELSE "range"
  /\ location = ""
  /\ date = InitialDate(variant)
  /\ email = ""
  /\ csvFile = NoFile
  /\ isLoading = FALSE
  /\ inflight = <<>>
  /\ sent = Len(reports)
  /\ accepted = Len(reports)
  /\ toast = IF reports = <<>> THEN NoToast ELSE SuccessMsg
  /\ now = IF reports = <<>> THEN 0 ELSE reports[1].id
  /\ lastOp = IF reports = <<>> THEN "none" ELSE "respond"
  /\ lastResp = NoResp
  /\ DocsInit("filter")
  /\ CsvInit("url")
  /\ DlInit

SpecDownload == InitDownload /\ [][NextDownload]_vars

\* the reports tab and the documents tab together, for what they share:
\* the object URLs of the window
InitObjectUrls ==
  /\ \E rs \in SampleReports :
       /\ reports = rs
       /\ history = [i \in 1..Len(rs) |-> rs[Len(rs) + 1 - i]]
  /\ variant = "range"
  /\ location = ""
  /\ date = NoDate
  /\ email = ""
  /\ csvFile = NoFile
  /\ isLoading = FALSE
  /\ inflight = <<>>
  /\ sent = Len(reports)
  /\ accepted = Len(reports)
  /\ toast = IF reports = <<>> THEN NoToast ELSE SuccessMsg
  /\ now = IF reports = <<>> THEN 0 ELSE reports[1].id
  /\ lastOp = IF reports = <<>> THEN "none" ELSE "respond"
  /\ lastResp = NoResp
  /\ DocsInit("filter")
  /\ CsvInit("url")
  /\ DlInit

NextObjectUrls == NextDownload \/ NextDocs

SpecObjectUrls == InitObjectUrls /\ [][NextObjectUrls]_vars

-----------------------------------------------------------------------------
(* Properties of the report form and the page-level list *)

\* a step in which a suspended handleSubmit ran to its end
RespondStep == lastOp' = "respond" /\ Len(inflight') < Len(inflight)

\* a required field of the form is empty
SomeFieldEmpty == location = "" \/ date = NoDate \/ date = OptionOf("") \/ email = ""

\* a JSON object with non-empty location, email and urlOfSecurityReport
HasThreeFields(r) ==
  /\ r.kind = "json"
  /\ r.location \notin {Absent, ""}
  /\ r.email \notin {Absent, ""}
  /\ r.urlOfSecurityReport \notin {Absent, ""}

\* C1: a submit attempt made while location, the date selection or email is
\* empty issues no request, leaves the busy flag clear, adds no report and
\* shows the 'Please fill in all fields' toast.
C1_EmptyFieldRejected ==
  [][(lastOp' = "submit" /\ SomeFieldEmpty)
       => /\ sent' = sent
          /\ inflight' = inflight
          /\ ~isLoading'
          /\ reports' = reports
          /\ toast' = ValidationMsg]_vars

C1_Witness ==
  /\ lastOp = "submit"
  /\ location /= ""
  /\ email = ""
  /\ toast = ValidationMsg
  /\ sent = 0

\* C2: the list grows only in a step that processed a success-status JSON
\* response with non-empty location, email and urlOfSecurityReport; a
\* completed request with any other outcome leaves the list unchanged and
\* shows the failure toast.
C2_AddedOnlyOnCompleteResponse ==
  [][/\ (reports' /= reports) => (RespondStep /\ HasThreeFields(lastResp'))
     /\ (RespondStep /\ ~HasThreeFields(lastResp'))
          => (reports' = reports /\ toast' = FailureMsg)]_vars

C2_Witness ==
  /\ lastOp = "respond"
  /\ lastResp.kind = "json"
  /\ lastResp.location = "London"
  /\ lastResp.email = "a@b.com"
  /\ lastResp.urlOfSecurityReport = Absent
  /\ lastResp.date = "2025-03-23"
  /\ toast = FailureMsg
  /\ reports = <<>>

\* a JSON object with the three required fields and no date field
OnlyThreeFields(r) ==
  /\ HasThreeFields(r)
  /\ r.date = Absent
  /\ r.dateFrom = Absent
  /\ r.dateTo = Absent

\* the step handed a record built from r to the page-level list
RecordAdded(r) ==
  /\ Len(reports') = Len(reports) + 1
  /\ reports'[1].location = r.location
  /\ reports'[1].email = r.email
  /\ reports'[1].reportUrl = r.urlOfSecurityReport
  /\ toast' = SuccessMsg

\* C3 as stated: every variant of the form accepts a success-status
\* response carrying only location, email and urlOfSecurityReport.
C3_ThreeFieldsAccepted ==
  [][(RespondStep /\ OnlyThreeFields(lastResp')) => RecordAdded(lastResp')]_vars

\* C3 amended: such a response is accepted by the date-option variant, and
\* is a failure in the single-date and date-range variants, which also
\* require a date.
C3_ThreeFieldsAcceptedByOptionVariant ==
  [][(RespondStep /\ OnlyThreeFields(lastResp'))
       => IF variant = "option"
          THEN RecordAdded(lastResp')
          ELSE reports' = reports /\ toast' = FailureMsg]_vars

C3_Witness ==
  /\ variant = "option"
  /\ lastOp = "respond"
  /\ OnlyThreeFields(lastResp)
  /\ toast = SuccessMsg
  /\ Len(reports) = 1

\* C4: the form is Submitting (busy flag set) exactly while a validated
\* submission's request is outstanding: issuing the request sets the flag,
\* and every completion, success or failure, clears it.
C4_IdleSubmitting ==
  /\ [](isLoading \in BOOLEAN /\ (isLoading <=> Len(inflight) > 0))
  /\ [][/\ (sent' > sent) => isLoading'
        /\ RespondStep => ~isLoading']_vars

C4_Witness ==
  /\ lastOp = "respond"
  /\ lastResp.kind = "neterr"
  /\ toast = FailureMsg
  /\ ~isLoading
  /\ inflight = <<>>

\* C5: at most one request of the form is outstanding, and no request is
\* started while the busy flag is set.
C5_OneInFlight ==
  /\ [](Len(inflight) <= 1)
  /\ [][isLoading => sent' = sent]_vars

C5_Witness ==
  /\ accepted = 2
  /\ Len(inflight) = 1
  /\ isLoading
  /\ lastOp = "edit"

\* C6: every validated submission has issued exactly one request, to the
\* hardcoded webhook URL; a completion issues none; the option variant sends
\* the multipart POST when a CSV file is attached and the GET otherwise.
C6_ExactlyOneRequest ==
  /\ [](sent = accepted)
  /\ [](\A i \in 1..Len(inflight) :
          /\ Len(inflight[i].reqs) = 1
          /\ inflight[i].reqs[1].url \in
               {"https://primary-production-b5ec.up.railway.app/webhook/64ae32ba-582c-4921-8452-5e0d81256d00",
                "https://n8ern8ern8ern8er.app.n8n.cloud/webhook/64ae32ba-582c-4921-8452-5e0d81256d00"}
          /\ inflight[i].reqs[1].method =
               IF inflight[i].csvFile /= NoFile THEN "POST" ELSE "GET")
  /\ [][(lastOp' = "submit" /\ ~SomeFieldEmpty /\ ~isLoading) => sent' = sent + 1]_vars
  /\ [][RespondStep => sent' = sent]_vars

C6_Witness ==
  /\ variant = "option"
  /\ sent = 1
  /\ Len(inflight) = 1
  /\ inflight[1].csvFile = "guards.csv"
  /\ inflight[1].reqs[1].method = "POST"

Reverse(s) == [i \in 1..Len(s) |-> s[Len(s) + 1 - i]]

\* C7: the page-level list holds the generated records newest first.
C7_NewestFirst == reports = Reverse(history)

C7_Witness ==
  /\ Len(reports) = 2
  /\ reports[1].id > reports[2].id

\* C8: the page-level list only grows, by one record at its head per
\* successful submission, and the records already in it stay as they are.
C8_ListOnlyGrows ==
  [][/\ \/ reports' = reports
        \/ /\ Len(reports') = Len(reports) + 1
           /\ SubSeq(reports', 2, Len(reports')) = reports
     /\ (RespondStep /\ toast' = SuccessMsg) => Len(reports') = Len(reports) + 1]_vars

C8_Witness ==
  /\ Len(reports) = 2
  /\ lastOp = "respond"
  /\ toast = SuccessMsg

\* C9 as stated: after a failed submission the fields hold the values they
\* had when it was submitted.
C9_FailureKeepsSubmittedValues ==
  [][(RespondStep /\ toast' = FailureMsg)
       => /\ location' = inflight[1].location
          /\ date' = inflight[1].date
          /\ email' = inflight[1].email]_vars

\* C9 amended: a rejected attempt and a failed completion leave location,
\* date selection and email as they were just before (the submitted values
\* unless a field was edited while the request was outstanding); a
\* successful completion resets them to their initial values.
C9_FieldsClearedOnlyOnSuccess ==
  [][/\ (lastOp' = "submit") => UNCHANGED <<location, date, email>>
     /\ (RespondStep /\ toast' = FailureMsg) => UNCHANGED <<location, date, email>>
     /\ (RespondStep /\ toast' = SuccessMsg)
          => /\ location' = ""
             /\ email' = ""
             /\ date' = IF variant = "option" THEN OptionOf("Today") ELSE NoDate]_vars

C9_Witness ==
  /\ lastOp = "respond"
  /\ toast = FailureMsg
  /\ location = "London"
  /\ email = "a@b.com"
  /\ date /= NoDate

-----------------------------------------------------------------------------
(* Recovery from failures *)

\* after a failed submission the form is not busy
C10_FormRetry == (lastOp = "respond" /\ toast = FailureMsg) => ~isLoading

\* after a failed upload the uploader is not busy
C10_UploadRetry == (upLastOp = "failed") => ~isUploading

\* after a failed download the record's Download button is still there
C10_DownloadRetry == (dlLastOp = "failed") => reports /= <<>>

\* after a failed document fetch the viewer can fetch again
C10_DocsRetry == (docPc = "done" /\ docError /= NoError) => ENABLED FetchDocuments

\* C10: after a failed report submission, CSV upload, report download or
\* document fetch, the component that failed can attempt the same operation
\* again.
C10_NoFailureIsFatal ==
  /\ C10_FormRetry
  /\ C10_UploadRetry
  /\ C10_DownloadRetry
  /\ C10_DocsRetry

-----------------------------------------------------------------------------
(* A request that is never answered *)

\* C11: nothing but the arrival of the response ends the Submitting state:
\* while a request is outstanding, every step that is not its completion
\* leaves the busy flag set and the request outstanding, and starts no
\* submission (no request is issued, no submit attempt is accepted).
C11_BusyUntilResponse ==
  [][(Len(inflight) > 0 /\ ~RespondStep)
       => /\ isLoading'
          /\ inflight' = inflight
          /\ sent' = sent
          /\ accepted' = accepted
          /\ lastOp' /= "submit"]_vars

C11_Witness ==
  /\ isLoading
  /\ Len(inflight) = 1
  /\ accepted = 1
  /\ lastOp = "edit"
  /\ location = ""
  /\ email = ""

-----------------------------------------------------------------------------
(* Properties of the report list and of the download *)

\* the date holds an instant that is not valid
HasInvalidInstant(d) ==
  \/ d.kind = "date" /\ ~IsValidDate(d)
  \/ /\ d.kind = "range"
     /\ \/ d.from.kind = "date" /\ ~IsValidDate(d.from)
        \/ d.to.kind = "date" /\ ~IsValidDate(d.to)

IsMarker(label) == label.el = "span.text-red-500"

\* C12: every record of the page-level list renders, in either source of
\* the list, and a record whose date holds an invalid instant shows a red
\* invalid-date marker.
C12_ListAlwaysRenders ==
  \A lv \in ListVariants : \A i \in 1..Len(reports) :
    /\ RendersCard(lv, reports[i])
    /\ HasInvalidInstant(reports[i].date) => IsMarker(displayDate(lv, reports[i]))

\* the sample link contains the Docs edit shape, the Drive file shape
Contains(u, lit) == \E i \in 1..Len(u) : HasAt(u, i, lit)
DocsShaped(u) == \E id \in FileIds : Contains(u, DocsEditUrl(id, ""))
DriveShaped(u) == \E id \in FileIds : Contains(u, DriveFileUrl(id, ""))
DocsIdOf(u) == CHOOSE id \in FileIds : Contains(u, DocsEditUrl(id, ""))
DriveIdOf(u) == CHOOSE id \in FileIds : Contains(u, DriveFileUrl(id, ""))

\* the link the priority order asks for
PriorityUrl(u) ==
  IF DocsShaped(u)
  THEN "https://docs.google.com/document/d/" \o DocsIdOf(u) \o "/export?format=pdf"
  ELSE IF DriveShaped(u)
       THEN "https://drive.google.com/uc?export=download&id=" \o DriveIdOf(u)
       ELSE u

\* the record a suspended download was started from
ReportOf(k) == CHOOSE r \in {reports[i] : i \in 1..Len(reports)} : r.id = dlPending[k].report

\* C13: the link a card downloads, and the link every started download
\* fetches, is the Docs PDF export if the report link has the Docs edit
\* shape, else the Drive direct download if it has the Drive file shape,
\* else the report link itself; it is never null or empty.
C13_DownloadUrlPriority ==
  /\ \A i \in 1..Len(reports) :
       /\ downloadUrl(reports[i]) = PriorityUrl(reports[i].reportUrl)
       /\ downloadUrl(reports[i]) \notin {NoUrl, Absent, ""}
  /\ \A k \in 1..Len(dlPending) :
       dlPending[k].url = PriorityUrl(ReportOf(k).reportUrl)

C13_Witness ==
  /\ Len(dlPending) = 1
  /\ reports[1].reportUrl =
       "https://drive.google.com/file/d/1a_B-9/view?from=https://docs.google.com/document/d/XYZ/edit"
  /\ dlPending[1].url = "https://docs.google.com/document/d/XYZ/export?format=pdf"

\* C14: the Drive resolver turns a link of the Drive file shape into the
\* direct-download link with the same file id, and returns null (it does
\* not throw) for every other link.
C14_DriveResolver ==
  \A i \in 1..Len(reports) :
    LET u == reports[i].reportUrl
    IN getGoogleDriveDownloadUrl(u) =
         IF DriveShaped(u)
         THEN "https://drive.google.com/uc?export=download&id=" \o DriveIdOf(u)
         ELSE NoUrl

C14_Witness ==
  /\ Len(dlPending) = 1
  /\ reports[1].reportUrl = "https://drive.google.com/file/d/1a_B-9/view?usp=sharing"
  /\ dlPending[1].url = "https://drive.google.com/uc?export=download&id=1a_B-9"
  /\ dlPending[1].phase = "blob"

C16_FailedDownloadContained ==
  [][/\ (Len(dlPending') < Len(dlPending) /\ dlLastOp' /= "saved")
          => (dlAlert' = DownloadFailedAlert /\ dlLastOp' = "failed")
     /\ dlLastOp' = "failed" => dlAlert' = DownloadFailedAlert
     /\ dlPending' /= dlPending => UNCHANGED formVars]_vars

C16_Witness ==
  /\ dlLastOp = "failed"
  /\ dlAlert = DownloadFailedAlert
  /\ dlPending = <<>>
  /\ dlStarted = 1
  /\ urlsCreated = 0
  /\ Len(reports) = 2

\* both endpoints of the pair are valid instants
ValidPair(d) == d.kind = "range" /\ IsValidDate(d.from) /\ IsValidDate(d.to)

\* C17: a pair that lacks an endpoint or holds an invalid one is no range
\* for the discriminator, shows a red marker as its label and gives the
\* placeholder as its filename token, in either source of the list.
C17_BrokenPairNeverFormatted ==
  \A lv \in ListVariants : \A i \in 1..Len(reports) :
    LET d == reports[i].date
    IN (d.kind = "range" /\ ~ValidPair(d))
         => /\ ~isDateRange(d)
            /\ IsMarker(displayDate(lv, reports[i]))
            /\ formattedDate(lv, reports[i]) = "unknown-date"

\* no valid date can be extracted from the value
NoValidDate(d) ==
  \/ d.kind = "none"
  \/ d.kind = "option" /\ d.opt \in {"", "Today", "Next 7 Days", "soon"}
  \/ d.kind = "date" /\ d.day = InvalidDay
  \/ d.kind = "range" /\ ~ValidPair(d)

\* the sample locations, sanitized by hand
SanitizedByHand(l) ==
  CASE l = "London" -> "London"
    [] l = "St. John's Wood" -> "St__John_s_Wood"

\* C18: a record from whose date no valid date can be extracted gets the
\* filename security-report-unknown-date-<sanitized location>.pdf, in
\* either source of the list.
C18_UnknownDateToken ==
  \A lv \in ListVariants : \A i \in 1..Len(reports) :
    NoValidDate(reports[i].date)
      => fileName(lv, reports[i]) =
           "security-report-unknown-date-" \o SanitizedByHand(reports[i].location)
             \o ".pdf"

\* the label a valid pair is to get
ExpectedPairLabel(d, pattern) ==
  IF d.from.day = d.to.day
  THEN Text(format(d.from, pattern))
  ELSE Text(format(d.from, pattern) \o " - " \o format(d.to, pattern))

\* C19: a pair of valid equal endpoints is labelled with the one formatted
\* date, a pair of valid unequal endpoints with both, in either source of
\* the list and on the date button of the form.
C19_EqualEndpointsCollapse ==
  /\ \A lv \in ListVariants : \A i \in 1..Len(reports) :
       ValidPair(reports[i].date)
         => displayDate(lv, reports[i]) = ExpectedPairLabel(reports[i].date, "MMM d, yyyy")
  /\ ValidPair(date) => getDateLabel(date) = ExpectedPairLabel(date, "PPP")

C19_Witness ==
  /\ Len(reports) = 2
  /\ reports[1].date = RangeOf(DateOf(1), DateOf(1))
  /\ reports[2].date = RangeOf(DateOf(1), DateOf(2))
  /\ displayDate("components", reports[1]) = Text("Mar 23, 2025")
  /\ displayDate("components", reports[2]) = Text("Mar 23, 2025 - Mar 24, 2025")
  /\ date = RangeOf(DateOf(2), DateOf(2))
  /\ getDateLabel(date) = Text("March 24th, 2025")

\* C20: a record whose date is a valid single instant shows the formatted
\* date and downloads under the yyyy-MM-dd token, in either source of the
\* list.
C20_ValidInstantFormatted ==
  /\ \A lv \in ListVariants : \A i \in 1..Len(reports) :
       IsValidDate(reports[i].date)
         => /\ displayDate(lv, reports[i]) =
                 Text(IF reports[i].date.day = 1 THEN "Mar 23, 2025" ELSE "Mar 24, 2025")
            /\ formattedDate(lv, reports[i]) =
                 (IF reports[i].date.day = 1 THEN "2025-03-23" ELSE "2025-03-24")
  /\ \A k \in 1..Len(dlPending) :
       IsValidDate(ReportOf(k).date)
         => dlPending[k].filename =
              "security-report-"
                \o (IF ReportOf(k).date.day = 1 THEN "2025-03-23" ELSE "2025-03-24")
                \o "-" \o SanitizedByHand(ReportOf(k).location) \o ".pdf"

C20_Witness ==
  /\ Len(dlPending) = 1
  /\ dlPending[1].list = "components"
  /\ reports[1].date = DateOf(1)
  /\ reports[1].location = "St. John's Wood"
  /\ dlPending[1].filename = "security-report-2025-03-23-St__John_s_Wood.pdf"
  /\ dlPending[1].url = "https://docs.google.com/document/d/XYZ/export?format=pdf"

-----------------------------------------------------------------------------
(* Properties of the request and of edits during the request *)

\* the query string holds key=value
HasParam(q, k, v) == \E i \in 1..Len(q) : q[i] = <<k, v>>

\* the query string holds the key
HasKey(q, k) == \E i \in 1..Len(q) : q[i][1] = k

\* yyyy-MM-dd of the sample days
IsoDay(d) == IF d = 1 THEN "2025-03-23" ELSE "2025-03-24"

\* the form holds the single day d: a Date in the single-date variant, the
\* pair from d to d in the date-range variant
SelectsDay(d) ==
  \/ variant = "single" /\ date = DateOf(d)
  \/ variant = "range" /\ date = RangeOf(DateOf(d), DateOf(d))

\* the step issued a request
RequestIssued == sent' = sent + 1 /\ Len(inflight') = Len(inflight) + 1

\* the query string of the request the step issued
IssuedQuery == inflight'[Len(inflight')].reqs[1].query

\* C21 as stated: a submission with the single day D selected sends a
\* query string that holds date=D as yyyy-MM-dd.
C21_SingleDaySendsDate ==
  [][\A d \in Days :
       (RequestIssued /\ SelectsDay(d)) => HasParam(IssuedQuery, "date", IsoDay(d))]_vars

\* C21 amended: the single-date variant sends date=D as yyyy-MM-dd; the
\* date-range variant, where a single day is the pair from D to D, sends
\* dateFrom=D and dateTo=D and no date parameter.
C21_SingleDaySendsDateOrEqualPair ==
  [][\A d \in Days :
       (RequestIssued /\ SelectsDay(d))
         => IF variant = "single"
            THEN HasParam(IssuedQuery, "date", IsoDay(d))
            ELSE /\ HasParam(IssuedQuery, "dateFrom", IsoDay(d))
                 /\ HasParam(IssuedQuery, "dateTo", IsoDay(d))
                 /\ ~HasKey(IssuedQuery, "date")]_vars

C21_Witness ==
  /\ variant = "single"
  /\ Len(inflight) = 1
  /\ inflight[1].date = DateOf(1)
  /\ inflight[1].location = "London"
  /\ inflight[1].email = "a@b.com"
  /\ HasParam(inflight[1].reqs[1].query, "date", "2025-03-23")

\* C26: in the date-range variant the selection is absent or a pair of two
\* Date endpoints, and every request of this variant carries dateFrom and
\* dateTo and no date parameter.
C26_RangeSendsBothEndpoints ==
  variant = "range"
    => /\ date = NoDate \/ isDateRange(date)
       /\ \A i \in 1..Len(inflight) :
            /\ HasKey(inflight[i].reqs[1].query, "dateFrom")
            /\ HasKey(inflight[i].reqs[1].query, "dateTo")
            /\ ~HasKey(inflight[i].reqs[1].query, "date")

C26_Witness ==
  /\ variant = "range"
  /\ Len(inflight) = 1
  /\ HasParam(inflight[1].reqs[1].query, "dateFrom", "2025-03-23")
  /\ HasParam(inflight[1].reqs[1].query, "dateTo", "2025-03-24")
  /\ date = NoDate

\* C27: an edit made while a request is outstanding is accepted and leaves
\* the request as it was sent; the record of a successful completion holds
\* the response's values and, in the option variant, the date that was
\* selected at submission; a successful completion resets every field and
\* a failed one leaves the fields as the edits left them.
C27_EditsDuringRequest ==
  [][/\ (lastOp' = "edit") => (inflight' = inflight /\ sent' = sent /\ reports' = reports)
     /\ (RespondStep /\ toast' = SuccessMsg)
          => /\ reports'[1].location = lastResp'.location
             /\ reports'[1].email = lastResp'.email
             /\ reports'[1].reportUrl = lastResp'.urlOfSecurityReport
             /\ variant = "option" => reports'[1].date = inflight[1].date
             /\ location' = ""
             /\ email' = ""
             /\ csvFile' = NoFile
             /\ date' = IF variant = "option" THEN OptionOf("Today") ELSE NoDate
     /\ (RespondStep /\ toast' = FailureMsg)
          => UNCHANGED <<location, date, email, csvFile, reports>>]_vars

C27_Witness ==
  /\ variant = "option"
  /\ isLoading
  /\ lastOp = "edit"
  /\ Len(inflight) = 1
  /\ inflight[1].date = OptionOf("Today")
  /\ date = OptionOf("Next 7 Days")
  /\ inflight[1].location = "London"
  /\ location = ""

\* C30: the identifiers of the records in the page-level list are pairwise
\* distinct.
C30_DistinctIds ==
  \A i \in 1..Len(reports) : \A j \in 1..Len(reports) :
    i /= j => reports[i].id /= reports[j].id

-----------------------------------------------------------------------------
(* Properties of the CSV uploader *)

\* the step started an upload
UploadStarted == upLastOp' = "upload" /\ Len(upInflight') = Len(upInflight) + 1

\* the step ended an upload attempt
UploadCompleted == Len(upInflight') < Len(upInflight)

\* C28: an upload sends the file that the file input holds, and a selection
\* that is rejected as not being a CSV leaves no file selected.
C28_UploadSendsChosenFile ==
  [][/\ UploadStarted => upInflight'[Len(upInflight')].file = upInput
     /\ (upLastOp' = "pick" /\ upInput' \in PickableFiles
           /\ ~FileAccepted(upVariant, upInput'))
          => upFile' = NullFile]_vars

\* C29: an upload starts only with a file selected and a webhook URL
\* present; when the attempt ends the uploading flag is false, and the file
\* and the entered URL are reset when the POST returned a success status
\* and left as they were otherwise.
C29_UploadOutcome ==
  [][/\ UploadStarted => (upFile /= NullFile /\ upUrl /= "")
     /\ (upSent' > upSent) => (upInflight'[1].file /= NullFile /\ upInflight'[1].url /= "")
     /\ UploadCompleted
          => /\ isUploading' = FALSE
             /\ IF upLastOp' = "uploaded"
                THEN /\ upFile' = NullFile
                     /\ upVariant = "url" => upUrl' = ""
                     /\ upVariant = "fixed" => upUrl' = FixedUploadUrl
                ELSE upLastOp' = "failed" /\ UNCHANGED <<upFile, upUrl>>]_vars

C29_Witness ==
  /\ upLastOp = "failed"
  /\ upSent = 1
  /\ upInflight = <<>>
  /\ ~isUploading
  /\ upFile /= NullFile
  /\ upUrl /= ""

-----------------------------------------------------------------------------
(* Properties of the documents viewer *)

\* the rows are on screen and no filter pass is due
ViewerSettled ==
  /\ docVariant = "filter"
  /\ docPc = "done"
  /\ docError = NoError
  /\ ~filterPending

\* part occurs in s when letter case is ignored
OccursIgnoringCase(s, part) ==
  \E i \in 1..Len(s) - Len(part) + 1 :
    \A k \in 1..Len(part) :
      LowerChar(CharAt(s, i + k - 1)) = LowerChar(CharAt(part, k))

\* the day a row's content names, 0 when it names none
DayOfDoc(doc) ==
  CASE Includes(doc.content, "dateOfReport:\"2025-03-23\"") -> 1
    [] Includes(doc.content, "dateOfReport:\"2025-03-24\"") -> 2
    [] OTHER -> 0

\* the day a date filter names
DayOfFilter(text) == IF text = "2025-03-23" THEN 1 ELSE 2

\* the row has the metadata field and the field holds the filter's text
FieldMatches(doc, field) ==
  /\ ~doc.metadata.isNull
  /\ doc.metadata[field] /= Absent
  /\ OccursIgnoringCase(doc.metadata[field], filters[field])

\* the row satisfies every filter that is not empty
SatisfiesFilters(doc) ==
  /\ \A field \in {"location", "type", "source"} :
       filters[field] /= "" => FieldMatches(doc, field)
  /\ filters.content /= "" => OccursIgnoringCase(doc.content, filters.content)
  /\ filters.dateFrom /= ""
       => (DayOfDoc(doc) /= 0 /\ DayOfDoc(doc) >= DayOfFilter(filters.dateFrom))
  /\ filters.dateTo /= ""
       => (DayOfDoc(doc) /= 0 /\ DayOfDoc(doc) <= DayOfFilter(filters.dateTo))

\* C22: once the filter effect has run, the filtered list is the loaded
\* rows that satisfy every non-empty filter at once, in loaded order; with
\* all filters empty it is the loaded list.
C22_FilteredIsConjunction ==
  ViewerSettled
    => /\ filteredDocuments = SelectSeq(documents, SatisfiesFilters)
       /\ filters = EmptyFilters => filteredDocuments = documents

C22_Witness ==
  /\ ViewerSettled
  /\ Len(documents) = 3
  /\ filters.source = "cctv"
  /\ filters.dateFrom = "2025-03-24"
  /\ filters.location = ""
  /\ Len(filteredDocuments) = 1
  /\ filteredDocuments[1].metadata.source = "CCTV"

QuotedByHand(content) ==
  CASE content = "gate left open" -> "\"gate left open\""
    [] content = "dateOfReport:\"2025-03-23\" perimeter check"
         -> "\"dateOfReport:\"\"2025-03-23\"\" perimeter check\""
    [] content = "dateOfReport:\"2025-03-24\" night patrol"
         -> "\"dateOfReport:\"\"2025-03-24\"\" night patrol\""

\* the metadata value of a row as the export shows it
ShownField(doc, field) ==
  IF doc.metadata.isNull \/ doc.metadata[field] = Absent
  THEN "" ELSE doc.metadata[field]

\* the line of one row
ExpectedLine(doc) ==
  ToString(doc.id) \o "," \o QuotedByHand(doc.content) \o ","
  \o ShownField(doc, "location") \o ","
  \o (CASE DayOfDoc(doc) = 1 -> "2025-03-23"
        [] DayOfDoc(doc) = 2 -> "2025-03-24"
        [] OTHER -> "") \o ",,"
  \o ShownField(doc, "type") \o "," \o ShownField(doc, "source")

RECURSIVE ExpectedLines(_)
ExpectedLines(docs) ==
  IF docs = <<>> THEN ""
  ELSE "\n" \o ExpectedLine(Head(docs)) \o ExpectedLines(Tail(docs))

\* C24: the exported text is the seven-column header followed by one line
\* per filtered row, in filtered order, of the row's seven values joined by
\* commas, the content value alone wrapped in double quotes with its quotes
\* doubled.
C24_CsvExport ==
  [][urlsCreated' = urlsCreated + 1 /\ dlLastOp' = "exported"
       => exported' = "ID,Content,Location,Date,Time,Type,Source"
                        \o ExpectedLines(filteredDocuments)]_vars

C24_Witness ==
  /\ Len(documents) = 3
  /\ Len(filteredDocuments) = 1
  /\ filters.content = "Patrol"
  /\ dlLastOp = "exported"
  /\ exported = "ID,Content,Location,Date,Time,Type,Source\n"
                \o "3,\"dateOfReport:\"\"2025-03-24\"\" night patrol\",Leeds,2025-03-24,,,CCTV"

-----------------------------------------------------------------------------
(* Report dates that carry an ordinal suffix *)

\* the record's date is a string that new Date() rejects as it stands and
\* accepts once the ordinal suffix is taken off
HasOrdinalDate(r) ==
  /\ r.date.kind = "option"
  /\ ~IsValidDate(NewDate(r.date.opt))
  /\ IsValidDate(NewDate(StripOrdinal(r.date.opt)))

====
